---- MODULE Spec2Model ----
(***************************************************************************)
(* The download engine of src/core/download_manager.py: the registry        *)
(* (self.downloads), the FIFO queue (self.download_queue), the pool of     *)
(* worker threads (_download_worker), the executor (_download_file,        *)
(* _download_single, _download_in_chunks, _download_chunk) and the client  *)
(* calls (add_download, pause_download, resume_download, cancel_download,  *)
(* delete_download, clear_completed).                                      *)
(*                                                                         *)
(* Threads interleave at statement granularity.  A block executed under    *)
(* self.downloads_lock is one action; code outside the lock is split at    *)
(* every point where another thread's effect can be observed (a blocking   *)
(* network call, a read of download.status, a file operation).             *)
(* Byte counts are in units of one iter_content chunk (8192 bytes).        *)
(* Download objects live on as long as a thread refers to them, so their   *)
(* fields are kept per id whether or not the id is still registered.       *)
(***************************************************************************)
EXTENDS Integers, Sequences, FiniteSets, TLC

\* ---------------------------------------------------------------- bounds
\* add_download calls (transfer ids are 1..MaxDownloads)
MaxDownloads == 3
\* largest max_downloads setting (worker threads are 1..MaxWorkers)
MaxWorkers == 2
\* pause_download calls that take effect
MaxPauses == 1
\* requests (HEAD, GET, reads of a body) that raise
MaxFailures == 1
\* length of the body the server serves, in chunks
BodyLen == 2
\* client calls that find nothing to do
MaxNoops == 1
\* clear_completed calls that remove something
MaxClears == 1

\* the largest chunk_count setting (line 94)
chunk_count == 2

Ids == 1 .. MaxDownloads
Workers == 1 .. MaxWorkers
Chunks == 0 .. chunk_count - 1

\* the statuses a worker drops, without Canceled
TerminalWithoutCanceled == {"Completed", "Failed"}

Terminal == {"Canceled", "Completed", "Failed"}

VARIABLES
    settings,        \* the settings read in __init__ (never written afterwards),
                     \* the privacy_mode the client passes to add_download and
                     \* the privacy provider's tor_enabled
    budget,          \* what the environment may still do: add_download calls
                     \* (add), effective pause_download calls (pause),
                     \* requests that raise (fail), client calls that find
                     \* nothing to do (noop), clear_completed calls that
                     \* remove something (clear); the Content-Length
                     \* values the server reports (lengths); and whether the
                     \* client pauses only before any byte is written and
                     \* calls resume_download at once (quick); and whether
                     \* the calls made during a retry delay are recorded
                     \* (watch)
    downloads,       \* keys of self.downloads (the registry)
    status,          \* Download.status of every Download object ever created
    size,            \* Download.size
    downloaded,      \* Download.downloaded
    error,           \* Download.error ("" is None)
    filename,        \* Download.filename: <<>> is the name from the URL,
                     \* Append(n, k) is "<n> (k)" (the auto-rename of n)
    dchunks,         \* Download.chunks: the worker whose list it refers to,
                     \* or the list itself once that worker made a new one
    download_queue,  \* self.download_queue
    active_workers,  \* self.active_workers
    worker,          \* every worker thread: its position and locals
    chunks,          \* _download_in_chunks's local chunks (the dict list)
    thread,          \* every chunk thread: its position and locals
    files,           \* the file system: path -> length
    pending,         \* ids whose add_download has not yet emitted Added
    ev               \* per id, what has been emitted on the signals

envVars == <<settings, budget>>
objVars == <<status, size, downloaded, error, filename, dchunks>>
regVars == <<downloads, download_queue, active_workers>>
chunkVars == <<chunks, thread>>
vars == <<settings, budget, downloads, status, size, downloaded, error,
          filename, dchunks, download_queue, active_workers, worker, chunks,
          thread, files, pending, ev>>

\* ------------------------------------------------------------- helpers
Max(a, b) == IF a >= b THEN a ELSE b

\* A path is <<name, suffix>>: suffix "" is the target itself, ".part" the
\* single-stream temp file, ".part<k>" the temp file of chunk k.
Path(name, suffix) == <<name, suffix>>
PartSuffix(k) == <<".part0", ".part1", ".part2", ".part3">>[k + 1]
NoFiles == [q \in {} |-> 0]
Exists(p) == p \in DOMAIN files
Remove(f, p) == [q \in (DOMAIN f) \ {p} |-> f[q]]
Create(f, p, len) == [q \in (DOMAIN f) \cup {p} |-> IF q = p THEN len ELSE f[q]]

\* f.write through a handle on path p at offset `at`: the file grows to hold
\* the chunk (a file removed meanwhile is written through the handle only)
Write(f, p, at) ==
    IF p \in DOMAIN f THEN [f EXCEPT ![p] = Max(@, at + 1)] ELSE f

\* Download.get_target_path: targetDir is the same for every transfer, so the
\* target path is the file name.
get_target_path(i) == filename[i]

\* signals: per id, whether Added was emitted, how often Started, Paused,
\* Resumed and Canceled were, how many terminal signals (completed, failed,
\* canceled) were, and whether a progress signal was emitted after a
\* terminal one; whether a request for the transfer was sent over a
\* direct (unproxied) connection; and, where the environment has it
\* recorded (budget.watch), whether Paused or Canceled was emitted while an
\* executor of the transfer was between two attempts
NoEvents ==
    [added |-> FALSE, started |-> 0, paused |-> 0, resumed |-> 0,
     canceled |-> 0, terminal |-> 0, late |-> FALSE, direct |-> FALSE,
     delayed |-> FALSE]

\* an executor of transfer i is in the retry delay (time.sleep, lines 404
\* and 545) after a failed attempt
InDelay(i) ==
    \E w \in Workers :
        /\ budget.watch
        /\ worker[w].id = i
        /\ \/ worker[w].pc = "s_get" /\ worker[w].retries > 0
           \/ /\ worker[w].pc = "c_join"
              /\ \E k \in Chunks :
                    thread[w][k].pc = "t_get" /\ thread[w][k].retries > 0

Emit(e, i, sig) ==
    CASE sig = "added" -> [e EXCEPT ![i].added = TRUE]
      [] sig = "started" -> [e EXCEPT ![i].started = @ + 1]
      [] sig = "paused" ->
            [e EXCEPT ![i].paused = @ + 1, ![i].delayed = @ \/ InDelay(i)]
      [] sig = "resumed" -> [e EXCEPT ![i].resumed = @ + 1]
      [] sig = "canceled" ->
            [e EXCEPT ![i].canceled = @ + 1, ![i].terminal = @ + 1,
                      ![i].delayed = @ \/ InDelay(i)]
      [] sig \in {"completed", "failed"} ->
            [e EXCEPT ![i].terminal = @ + 1]
      [] sig = "progress" -> [e EXCEPT ![i].late = @ \/ e[i].terminal > 0]
      [] sig = "direct" -> [e EXCEPT ![i].direct = TRUE]
      [] OTHER -> e

\* a client call that finds nothing to do (it returns False, or None for
\* clear_completed): nothing of the program changes
NoEffect ==
    /\ budget.noop > 0
    /\ budget' = [budget EXCEPT !.noop = @ - 1]
    /\ UNCHANGED <<settings, downloads, status, size, downloaded, error,
                   filename, dchunks, download_queue, active_workers, worker,
                   chunks, thread, files, pending, ev>>

\* worker thread locals: download_id, success, and the executor's
\* supports_range, retries, bytes read of the current response, target_path
\* and temp_path
IdleWorker ==
    [pc |-> "get", id |-> 0, success |-> FALSE, range |-> FALSE,
     retries |-> 0, got |-> 0, target |-> <<>>, temp |-> <<>>]

IdleThread == [pc |-> "none", retries |-> 0, got |-> 0]

NoChunk == [start |-> 0, end |-> 0, downloaded |-> 0, status |-> "none"]

At(w, p) == worker[w].pc = p
Goto(w, p) == worker' = [worker EXCEPT ![w].pc = p]

\* a request of the executor raises (the server or the network fails)
Raises == budget.fail > 0
Raised == budget' = [budget EXCEPT !.fail = @ - 1]

\* the executor returns `ok` to the worker: its locals die
Return(w, ok) ==
    worker' = [worker EXCEPT ![w] =
                  [IdleWorker EXCEPT !.pc = "commit", !.id = worker[w].id,
                                     !.success = ok]]

\* ------------------------------------------------------------------ Init
\* DownloadManager.__init__: the settings, an empty registry and queue, and
\* max_workers worker threads blocked in download_queue.get().
InitWith(S, B, F) ==
    /\ settings \in S
    /\ budget \in B
    /\ files \in F
    /\ downloads = {}
    /\ status = [i \in Ids |-> "None"]
    /\ size = [i \in Ids |-> -1]
    /\ downloaded = [i \in Ids |-> 0]
    /\ error = [i \in Ids |-> ""]
    /\ filename = [i \in Ids |-> <<>>]
    /\ dchunks = [i \in Ids |-> [owner |-> 0, list |-> <<>>]]
    /\ download_queue = <<>>
    /\ active_workers = 0
    /\ worker = [w \in Workers |->
                    IF w <= settings.max_downloads THEN IdleWorker
                    ELSE [IdleWorker EXCEPT !.pc = "off"]]
    /\ chunks = [w \in Workers |-> [k \in Chunks |-> NoChunk]]
    /\ thread = [w \in Workers |-> [k \in Chunks |-> IdleThread]]
    /\ pending = {}
    /\ ev = [i \in Ids |-> NoEvents]

\* --------------------------------------------------------- client calls
\* add_download up to the queue.put (lines 126-133): a new Download with a
\* fresh id enters the registry and the queue.
add_download(i) ==
    /\ budget.add > 0
    /\ status[i] = "None"
    /\ \A j \in Ids : j < i => status[j] # "None"
    /\ budget' = [budget EXCEPT !.add = @ - 1]
    /\ status' = [status EXCEPT ![i] = "Waiting"]
    /\ downloads' = downloads \cup {i}
    /\ download_queue' = Append(download_queue, i)
    /\ pending' = pending \cup {i}
    /\ UNCHANGED <<settings, size, downloaded, error, filename, dchunks,
                   active_workers, worker, chunkVars, files, ev>>

\* add_download, line 134: self.download_added.emit(download.id)
add_download_emit(i) ==
    /\ i \in pending
    /\ pending' = pending \ {i}
    /\ ev' = Emit(ev, i, "added")
    /\ UNCHANGED <<envVars, objVars, regVars, worker, chunkVars, files>>

\* lines 140-147: under the lock, Downloading becomes Paused and the call
\* returns True; anything else returns False.  <call>_returns(i) is the
\* value the call returns when it is made in the current state.
\* pause_download taking a Waiting transfer too
PauseAlsoWaiting(i) == i \in downloads /\ status[i] \in {"Downloading", "Waiting"}

pause_download_returns(i) == i \in downloads /\ status[i] = "Downloading"

\* no byte of transfer i has been written yet
Fresh(i) ==
    /\ downloaded[i] = 0
    /\ \A p \in DOMAIN files : p[2] # "" => files[p] = 0

\* the client calls pause_download(i) and then resume_download(i) with no
\* step of another thread between the two calls (lines 140-146, 151-158)
pause_then_resume(i) ==
    /\ status' = [status EXCEPT ![i] = "Waiting"]
    /\ download_queue' = Append(download_queue, i)
    /\ ev' = Emit(Emit(ev, i, "paused"), i, "resumed")
    /\ UNCHANGED <<downloads, active_workers>>

pause_download(i) ==
    IF pause_download_returns(i)
    THEN /\ budget.pause > 0
         /\ IF budget.quick
            THEN Fresh(i) /\ pause_then_resume(i)
            ELSE /\ status' = [status EXCEPT ![i] = "Paused"]
                 /\ ev' = Emit(ev, i, "paused")
                 /\ UNCHANGED regVars
         /\ budget' = [budget EXCEPT !.pause = @ - 1]
         /\ UNCHANGED <<settings, size, downloaded, error, filename, dchunks,
                        worker, chunkVars, files, pending>>
    ELSE NoEffect

\* lines 187-189: stop_download is pause_download
stop_download(i) == pause_download(i)

\* lines 151-159: under the lock, Paused becomes Waiting and the id is put
\* on the queue again
\* resume_download taking a Canceled transfer too
ResumeAlsoCanceled(i) == i \in downloads /\ status[i] \in {"Paused", "Canceled"}

\* resume_download taking a Waiting transfer too
ResumeAlsoWaiting(i) == i \in downloads /\ status[i] \in {"Paused", "Waiting"}

resume_download_returns(i) == i \in downloads /\ status[i] = "Paused"

resume_download(i) ==
    IF resume_download_returns(i)
    THEN /\ status' = [status EXCEPT ![i] = "Waiting"]
         /\ download_queue' = Append(download_queue, i)
         /\ ev' = Emit(ev, i, "resumed")
         /\ UNCHANGED <<envVars, size, downloaded, error, filename, dchunks,
                        downloads, active_workers, worker, chunkVars, files,
                        pending>>
    ELSE NoEffect

\* cancel_download taking a Completed transfer too
CancelableAlsoCompleted(i) ==
    status[i] \in {"Downloading", "Paused", "Waiting", "Completed"}

\* line 166 of cancel_download
Cancelable(i) == status[i] \in {"Downloading", "Paused", "Waiting"}

\* lines 163-170
cancel_download_returns(i) == i \in downloads /\ Cancelable(i)

cancel_download(i) ==
    IF cancel_download_returns(i)
    THEN /\ status' = [status EXCEPT ![i] = "Canceled"]
         /\ ev' = Emit(ev, i, "canceled")
         /\ UNCHANGED <<envVars, size, downloaded, error, filename, dchunks,
                        regVars, worker, chunkVars, files, pending>>
    ELSE NoEffect

\* lines 174-185: under the (reentrant) lock, a Downloading or Waiting
\* transfer is canceled through cancel_download, then the entry is removed
delete_download_returns(i) == i \in downloads

delete_download(i) ==
    IF delete_download_returns(i)
    THEN /\ IF status[i] \in {"Downloading", "Waiting"}
            THEN /\ status' = [status EXCEPT ![i] = "Canceled"]
                 /\ ev' = Emit(ev, i, "canceled")
            ELSE UNCHANGED <<status, ev>>
         /\ downloads' = downloads \ {i}
         /\ UNCHANGED <<envVars, size, downloaded, error, filename, dchunks,
                        download_queue, active_workers, worker, chunkVars,
                        files, pending>>
    ELSE NoEffect

\* clear_completed removing the Canceled transfers too
CompletedOrCanceled(d) == {i \in d : status[i] \in {"Completed", "Canceled"}}

\* lines 194-195: the ids clear_completed removes from the registry d
completed_ids(d) == {i \in d : status[i] = "Completed"}

\* lines 193-198 (the call returns None)
clear_completed ==
    IF completed_ids(downloads) # {}
    THEN /\ budget.clear > 0
         /\ budget' = [budget EXCEPT !.clear = @ - 1]
         /\ downloads' = downloads \ completed_ids(downloads)
         /\ UNCHANGED <<settings, objVars, download_queue, active_workers,
                        worker, chunkVars, files, pending, ev>>
    ELSE NoEffect

\* ------------------------------------------------------ _download_worker
\* line 225: download_id = self.download_queue.get()
worker_get(w) ==
    /\ At(w, "get")
    /\ download_queue # <<>>
    /\ worker' = [worker EXCEPT ![w].id = Head(download_queue),
                                ![w].pc = "lookup"]
    /\ download_queue' = Tail(download_queue)
    /\ UNCHANGED <<envVars, objVars, downloads, active_workers, chunkVars,
                   files, pending, ev>>

\* lines 227-241, under the lock: drop the id if it is absent or terminal,
\* else mark it Downloading
worker_lookup(w) ==
    LET i == worker[w].id IN
    /\ At(w, "lookup")
    /\ IF i \notin downloads \/ status[i] \in Terminal
       THEN /\ worker' = [worker EXCEPT ![w] = IdleWorker]
            /\ UNCHANGED <<status, active_workers>>
       ELSE /\ status' = [status EXCEPT ![i] = "Downloading"]
            /\ active_workers' = active_workers + 1
            /\ Goto(w, "started")
    /\ UNCHANGED <<envVars, size, downloaded, error, filename, dchunks,
                   downloads, download_queue, chunkVars, files, pending, ev>>

\* line 243: self.download_started.emit(download_id)
worker_started(w) ==
    /\ At(w, "started")
    /\ ev' = Emit(ev, worker[w].id, "started")
    /\ Goto(w, "file")
    /\ UNCHANGED <<envVars, objVars, regVars, chunkVars, files, pending>>

\* the final commit by a worker thread that ends instead of looping
WorkerCommitEnds(w) ==
    LET i == worker[w].id IN
    /\ At(w, "commit")
    /\ status' = [status EXCEPT ![i] =
                      IF i \notin downloads THEN @
                      ELSE IF worker[w].success THEN "Completed"
                      ELSE IF @ = "Downloading" THEN "Failed" ELSE @]
    /\ active_workers' = active_workers - 1
    /\ worker' = [worker EXCEPT ![w] = [IdleWorker EXCEPT !.pc = "off"]]
    /\ UNCHANGED <<envVars, size, downloaded, error, filename, dchunks,
                   downloads, download_queue, chunkVars, files, pending, ev>>

\* the final commit with lines 256-257 left out: a failed run is not written
\* Failed, the transfer stays Downloading with no worker on it
CommitStatusKeepsDownloading(i, ok) ==
    IF i \notin downloads THEN status[i]
    ELSE IF ok THEN "Completed"
    ELSE status[i]

\* lines 249-258: the status the final commit writes.  Success is written
\* Completed whatever the status is; a failure is written Failed only over
\* Downloading; an id that left the registry is not touched.
CommitStatus(i, ok) ==
    IF i \notin downloads THEN status[i]
    ELSE IF ok THEN "Completed"
    ELSE IF status[i] = "Downloading" THEN "Failed"
    ELSE status[i]

\* lines 253, 258: the signal the final commit emits ("" for none)
CommitSignal(i, ok) ==
    IF i \notin downloads THEN ""
    ELSE IF ok THEN "completed"
    ELSE IF status[i] = "Downloading" THEN "failed"
    ELSE ""

\* lines 249-269: the final commit, active_workers -= 1, task_done
worker_commit(w) ==
    LET i == worker[w].id IN
    /\ At(w, "commit")
    /\ status' = [status EXCEPT ![i] = CommitStatus(i, worker[w].success)]
    /\ ev' = Emit(ev, i, CommitSignal(i, worker[w].success))
    /\ active_workers' = active_workers - 1
    /\ worker' = [worker EXCEPT ![w] = IdleWorker]
    /\ UNCHANGED <<envVars, size, downloaded, error, filename, dchunks,
                   downloads, download_queue, chunkVars, files, pending>>

\* -------------------------------------------------------- _download_file
\* lines 276-282: look the id up under the lock; absent: return (None)
download_file_begin(w) ==
    /\ At(w, "file")
    /\ IF worker[w].id \notin downloads
       THEN Return(w, FALSE)
       ELSE Goto(w, "head")
    /\ UNCHANGED <<envVars, objVars, regVars, chunkVars, files, pending, ev>>

\* lines 326-331: the handler of an exception that leaves the executor: the
\* error is recorded under the lock if the id is still registered
FileError(i) ==
    IF i \in downloads THEN [error EXCEPT ![i] = "error"] ELSE error

\* the strategy without the chunk_enabled setting
ChunkedWhateverSetting(supports_range, sz) ==
    supports_range /\ sz >= settings.chunk_min_size

\* lines 319-325: the strategy
Chunked(supports_range, sz) ==
    supports_range /\ settings.chunk_enabled /\ sz >= settings.chunk_min_size

\* lines 575-604: the proxies for a privacy mode ("" is the empty dict: a
\* direct connection).  The Proxy mode is not modelled.
get_proxies(privacy_mode) ==
    IF privacy_mode = "Tor" /\ settings.tor_enabled THEN "socks5" ELSE ""

\* a request for transfer i is sent with the proxies of its privacy mode
Sent(i) ==
    IF get_proxies(settings.privacy_mode) = "" THEN Emit(ev, i, "direct") ELSE ev

\* the length of the body the server sends for transfer i: the
\* Content-Length it reported, BodyLen if it reported none
Body(i) == IF size[i] >= 0 THEN size[i] ELSE BodyLen

\* lines 284-325: the HEAD probe.  It raises, or it answers with or without
\* a numeric Content-Length and with or without Accept-Ranges: bytes; then
\* the strategy is chosen.
download_file_head(w) ==
    LET i == worker[w].id IN
    /\ At(w, "head")
    /\ ev' = Sent(i)
    /\ \/ /\ Raises /\ Raised
          /\ error' = FileError(i)
          /\ Return(w, FALSE)
          /\ UNCHANGED size
       \/ \E cl \in {-1} \cup budget.lengths, supports_range \in BOOLEAN :
             LET sz == IF cl >= 0 THEN cl ELSE size[i] IN
             /\ size' = [size EXCEPT ![i] = sz]
             /\ worker' = [worker EXCEPT
                              ![w].range = supports_range,
                              ![w].pc = IF Chunked(supports_range, sz)
                                        THEN "c_prepare" ELSE "s_conflict"]
             /\ UNCHANGED <<error, budget>>
    /\ UNCHANGED <<settings, status, downloaded, filename, dchunks, regVars,
                   chunkVars, files, pending>>

\* ------------------------------------------------------ _download_single
\* the rename that takes the counter it is given without looking
AutoRenameUnchecked(base, counter) == Append(base, counter)

\* the Skip download policy that never skips
SkipNever(name) == FALSE

\* lines 346-350 (420-424): the first "<base> (<counter>)<ext>" that does
\* not exist
RECURSIVE AutoRename(_, _)
AutoRename(base, counter) ==
    IF Exists(Path(Append(base, counter), ""))
    THEN AutoRename(base, counter + 1)
    ELSE Append(base, counter)

\* lines 339-351 (413-425): the target_path the conflict policy yields for
\* the name the transfer has at entry
Resolve(name) ==
    IF Exists(Path(name, "")) /\ settings.file_conflict = "Auto rename"
    THEN AutoRename(name, 1) ELSE name

\* lines 341-342 (415-416)
Skip(name) ==
    Exists(Path(name, "")) /\ settings.file_conflict = "Skip download"

\* lines 335-357: temp_path is fixed from the name at entry; then the
\* conflict policy is applied to target_path
download_single_conflict(w) ==
    LET i == worker[w].id
        name == get_target_path(i)
    IN
    /\ At(w, "s_conflict")
    /\ IF Skip(name)
       THEN /\ Return(w, TRUE)
            /\ UNCHANGED filename
       ELSE /\ filename' = [filename EXCEPT ![i] = Resolve(name)]
            /\ worker' = [worker EXCEPT ![w].target = Resolve(name),
                                        ![w].temp = name,
                                        ![w].range = FALSE,
                                        ![w].retries = 0,
                                        ![w].pc = "s_get"]
    /\ UNCHANGED <<envVars, status, size, downloaded, error, dchunks, regVars,
                   chunkVars, files, pending, ev>>

\* the except branch that gives up one retry early
SingleFailEarly(w) ==
    LET tp == Path(worker[w].temp, ".part") IN
    IF worker[w].retries + 1 >= settings.retry_count
    THEN /\ error' = [error EXCEPT ![worker[w].id] = "error"]
         /\ files' = IF Exists(tp) THEN Remove(files, tp) ELSE files
         /\ Return(w, FALSE)
    ELSE /\ worker' = [worker EXCEPT ![w].retries = @ + 1, ![w].pc = "s_get"]
         /\ UNCHANGED <<error, files>>

\* lines 394-404: the except branch of the retry loop.  Retries left: sleep
\* and try again; none left: record the error, remove the temp file if it
\* exists, return False.
SingleFail(w) ==
    LET tp == Path(worker[w].temp, ".part") IN
    IF worker[w].retries + 1 > settings.retry_count
    THEN /\ error' = [error EXCEPT ![worker[w].id] = "error"]
         /\ files' = IF Exists(tp) THEN Remove(files, tp) ELSE files
         /\ Return(w, FALSE)
    ELSE /\ worker' = [worker EXCEPT ![w].retries = @ + 1, ![w].pc = "s_get"]
         /\ UNCHANGED <<error, files>>

\* lines 360-369: the GET.  It raises, or it answers and temp_path is opened
\* 'wb' (created or truncated).
download_single_get(w) ==
    /\ At(w, "s_get")
    /\ ev' = Sent(worker[w].id)
    /\ \/ /\ Raises /\ Raised
          /\ SingleFail(w)
       \/ /\ files' = Create(files, Path(worker[w].temp, ".part"), 0)
          /\ worker' = [worker EXCEPT ![w].got = 0, ![w].pc = "s_iter"]
          /\ UNCHANGED <<error, budget>>
    /\ UNCHANGED <<settings, status, size, downloaded, filename, dchunks,
                   regVars, chunkVars, pending>>

\* lines 370-373: the next chunk of the body arrives and the status is read:
\* not Downloading: return False (the temp file stays).  Or the body is
\* over, or the read raises.
download_single_iter(w) ==
    /\ At(w, "s_iter")
    /\ \/ /\ worker[w].got < Body(worker[w].id)
          /\ IF status[worker[w].id] # "Downloading"
             THEN Return(w, FALSE)
             ELSE Goto(w, "s_write")
          /\ UNCHANGED <<error, files, budget>>
       \/ /\ worker[w].got >= Body(worker[w].id)
          /\ Goto(w, "s_move")
          /\ UNCHANGED <<error, files, budget>>
       \/ /\ worker[w].got < Body(worker[w].id)
          /\ Raises /\ Raised
          /\ SingleFail(w)
    /\ UNCHANGED <<settings, status, size, downloaded, filename, dchunks,
                   regVars, chunkVars, pending, ev>>

\* lines 375-385: write the chunk, downloaded += len(chunk), emit progress
download_single_write(w) ==
    LET i == worker[w].id IN
    /\ At(w, "s_write")
    /\ files' = Write(files, Path(worker[w].temp, ".part"), worker[w].got)
    /\ downloaded' = [downloaded EXCEPT ![i] = @ + 1]
    /\ ev' = Emit(ev, i, "progress")
    /\ worker' = [worker EXCEPT ![w].got = @ + 1, ![w].pc = "s_iter"]
    /\ UNCHANGED <<envVars, status, size, error, filename, dchunks, regVars,
                   chunkVars, pending>>

\* lines 388-393: shutil.move(temp_path, target_path) and return True; a
\* missing temp file raises into the retry loop
download_single_move(w) ==
    LET tp == Path(worker[w].temp, ".part") IN
    /\ At(w, "s_move")
    /\ IF Exists(tp)
       THEN /\ files' = Create(Remove(files, tp), Path(worker[w].target, ""),
                               files[tp])
            /\ Return(w, TRUE)
            /\ UNCHANGED error
       ELSE SingleFail(w)
    /\ UNCHANGED <<envVars, status, size, downloaded, filename, dchunks,
                   regVars, chunkVars, pending, ev>>

\* --------------------------------------------------- _download_in_chunks
\* the indices of the chunks of a run: range(self.chunk_count)
Active == 0 .. settings.chunk_count - 1

\* chunk dicts of equal width, the last one not taking the remainder
PrepareChunksEven(sz) ==
    LET chunk_size == sz \div settings.chunk_count IN
    [k \in Chunks |->
        IF k \notin Active THEN NoChunk
        ELSE [start |-> k * chunk_size,
              end |-> k * chunk_size + chunk_size - 1,
              downloaded |-> 0,
              status |-> "waiting"]]

\* lines 430-445: the chunk dicts for a transfer of sz bytes (the entries
\* beyond chunk_count are not part of the list)
PrepareChunks(sz) ==
    LET chunk_size == sz \div settings.chunk_count IN
    [k \in Chunks |->
        IF k \notin Active THEN NoChunk
        ELSE [start |-> k * chunk_size,
              end |-> IF k < settings.chunk_count - 1
                      THEN k * chunk_size + chunk_size - 1
                      ELSE sz - 1,
              downloaded |-> 0,
              status |-> "waiting"]]

\* the list Download.chunks refers to
NoList == [k \in {} |-> NoChunk]
DownloadChunks(i) ==
    IF dchunks[i].owner # 0 THEN chunks[dchunks[i].owner] ELSE dchunks[i].list

RECURSIVE SumDownloaded(_, _)
SumDownloaded(list, ks) ==
    IF ks = {} THEN 0
    ELSE LET k == CHOOSE x \in ks : TRUE
         IN list[k].downloaded + SumDownloaded(list, ks \ {k})

\* lines 410-458: the conflict policy, the chunk list (published as
\* download.chunks), one thread per chunk
download_in_chunks_prepare(w) ==
    LET i == worker[w].id
        name == get_target_path(i)
    IN
    /\ At(w, "c_prepare")
    /\ IF Skip(name)
       THEN /\ Return(w, TRUE)
            /\ UNCHANGED <<filename, dchunks, chunks, thread>>
       ELSE /\ filename' = [filename EXCEPT ![i] = Resolve(name)]
            /\ worker' = [worker EXCEPT ![w].target = Resolve(name),
                                        ![w].range = FALSE,
                                        ![w].pc = "c_join"]
            /\ chunks' = [chunks EXCEPT ![w] = PrepareChunks(size[i])]
            /\ dchunks' = [dchunks EXCEPT ![i] = [owner |-> w, list |-> NoList]]
            /\ thread' = [thread EXCEPT ![w] =
                             [k \in Chunks |->
                                 IF k \in Active
                                 THEN [IdleThread EXCEPT !.pc = "t_get"]
                                 ELSE IdleThread]]
    /\ UNCHANGED <<envVars, status, size, downloaded, error, regVars, files,
                   pending, ev>>

\* the temp_file of chunk k of worker w's run
TempFile(w, k) == Path(worker[w].target, PartSuffix(k))

\* lines 473-475 (486-488): remove the temp files that exist
RemoveParts(f, w) ==
    [q \in (DOMAIN f) \ {TempFile(w, k) : k \in Chunks} |-> f[q]]

\* the run is over: the list stays reachable through download.chunks only
Release(w) ==
    /\ dchunks' = [j \in Ids |->
                      IF dchunks[j].owner = w
                      THEN [owner |-> 0, list |-> chunks[w]] ELSE dchunks[j]]
    /\ chunks' = [chunks EXCEPT ![w] = [k \in Chunks |-> NoChunk]]
    /\ thread' = [thread EXCEPT ![w] = [k \in Chunks |-> IdleThread]]

\* the combination that copies one temp file only
CombinedFirstOnly(f, w, k) ==
    IF TempFile(w, k) \in DOMAIN f THEN f[TempFile(w, k)] ELSE 0

\* lines 467-470: the bytes copied into target_path, up to the first temp
\* file that is missing (opening it raises)
RECURSIVE Combined(_, _, _)
Combined(f, w, k) ==
    IF k \notin Active \/ TempFile(w, k) \notin DOMAIN f THEN 0
    ELSE f[TempFile(w, k)] + Combined(f, w, k + 1)

\* lines 460-490: join the threads; every chunk completed: combine the temp
\* files into target_path, remove them, return True (a missing temp file
\* raises out of the executor, into _download_file's handler); else record
\* the error, remove the temp files, return False
download_in_chunks_join(w) ==
    LET i == worker[w].id
        tp == Path(worker[w].target, "")
    IN
    /\ At(w, "c_join")
    /\ \A k \in Active : thread[w][k].pc = "end"
    /\ IF \A k \in Active : chunks[w][k].status = "completed"
       THEN IF \A k \in Active : Exists(TempFile(w, k))
            THEN /\ files' = RemoveParts(Create(files, tp, Combined(files, w, 0)), w)
                 /\ Return(w, TRUE)
                 /\ UNCHANGED error
            ELSE /\ files' = Create(files, tp, Combined(files, w, 0))
                 /\ error' = FileError(i)
                 /\ Return(w, FALSE)
       ELSE /\ error' = [error EXCEPT ![i] = "error"]
            /\ files' = RemoveParts(files, w)
            /\ Return(w, FALSE)
    /\ Release(w)
    /\ UNCHANGED <<envVars, status, size, downloaded, filename, regVars,
                   pending, ev>>

\* -------------------------------------------------------- _download_chunk
\* lines 537-545: the except branch of the chunk's retry loop
ChunkFail(w, k) ==
    IF thread[w][k].retries + 1 > settings.retry_count
    THEN /\ chunks' = [chunks EXCEPT ![w][k].status = "failed"]
         /\ thread' = [thread EXCEPT ![w][k] = [IdleThread EXCEPT !.pc = "end"]]
    ELSE /\ chunks' = [chunks EXCEPT ![w][k].status = "downloading"]
         /\ thread' = [thread EXCEPT ![w][k].retries = @ + 1,
                                     ![w][k].pc = "t_get"]

\* lines 498-511: the chunk is marked downloading and the ranged GET is
\* sent.  It raises, or it answers and temp_file is opened 'wb'.
download_chunk_get(w, k) ==
    /\ thread[w][k].pc = "t_get"
    /\ ev' = Sent(worker[w].id)
    /\ \/ /\ Raises /\ Raised
          /\ ChunkFail(w, k)
          /\ UNCHANGED files
       \/ /\ chunks' = [chunks EXCEPT ![w][k].status = "downloading"]
          /\ files' = Create(files, TempFile(w, k), 0)
          /\ thread' = [thread EXCEPT ![w][k].got = 0, ![w][k].pc = "t_iter"]
          /\ UNCHANGED budget
    /\ UNCHANGED <<settings, objVars, regVars, worker, pending>>

\* bytes the server sends for the chunk's range
RangeLen(c) == Max(0, c.end - c.start + 1)

\* bytes the server sends to the thread of chunk k: the range, or the whole
\* body when the Range header is not a byte range (start > end), which a
\* server ignores
ChunkBody(w, k) ==
    IF chunks[w][k].start > chunks[w][k].end THEN Body(worker[w].id)
    ELSE RangeLen(chunks[w][k])

\* lines 512-515, 534-535: the next piece of the range arrives and the
\* status is read: not Downloading: the thread returns, its chunk neither
\* completed nor failed.  Or the range is over: the chunk is completed.  Or
\* the read raises.
download_chunk_iter(w, k) ==
    /\ thread[w][k].pc = "t_iter"
    /\ \/ /\ thread[w][k].got < ChunkBody(w, k)
          /\ IF status[worker[w].id] # "Downloading"
             THEN thread' = [thread EXCEPT ![w][k] = [IdleThread EXCEPT !.pc = "end"]]
             ELSE thread' = [thread EXCEPT ![w][k].pc = "t_write"]
          /\ UNCHANGED <<chunks, budget>>
       \/ /\ thread[w][k].got >= ChunkBody(w, k)
          /\ chunks' = [chunks EXCEPT ![w][k].status = "completed"]
          /\ thread' = [thread EXCEPT ![w][k] = [IdleThread EXCEPT !.pc = "end"]]
          /\ UNCHANGED budget
       \/ /\ thread[w][k].got < ChunkBody(w, k)
          /\ Raises /\ Raised
          /\ ChunkFail(w, k)
    /\ UNCHANGED <<settings, objVars, regVars, worker, files, pending, ev>>

\* lines 517-519: write the piece, chunk['downloaded'] += len(data)
download_chunk_write(w, k) ==
    /\ thread[w][k].pc = "t_write"
    /\ files' = Write(files, TempFile(w, k), thread[w][k].got)
    /\ chunks' = [chunks EXCEPT ![w][k].downloaded = @ + 1]
    /\ thread' = [thread EXCEPT ![w][k].got = @ + 1, ![w][k].pc = "t_sum"]
    /\ UNCHANGED <<envVars, objVars, regVars, worker, pending, ev>>

\* lines 521-531: under the lock, download.downloaded becomes the sum over
\* download.chunks; then the progress signal
download_chunk_sum(w, k) ==
    LET i == worker[w].id IN
    /\ thread[w][k].pc = "t_sum"
    /\ downloaded' = [downloaded EXCEPT ![i] =
                         SumDownloaded(DownloadChunks(i), DOMAIN DownloadChunks(i))]
    /\ ev' = Emit(ev, i, "progress")
    /\ thread' = [thread EXCEPT ![w][k].pc = "t_iter"]
    /\ UNCHANGED <<envVars, status, size, error, filename, dchunks, regVars,
                   worker, chunks, files, pending>>

\* ------------------------------------------------------------------ Next
Client ==
    \E i \in Ids :
        \/ add_download(i)
        \/ add_download_emit(i)
        \/ pause_download(i)
        \/ stop_download(i)
        \/ resume_download(i)
        \/ cancel_download(i)
        \/ delete_download(i)

Scheduler ==
    \E w \in Workers :
        \/ worker_get(w)
        \/ worker_lookup(w)
        \/ worker_started(w)
        \/ worker_commit(w)
        \/ download_file_begin(w)
        \/ download_file_head(w)

Single ==
    \E w \in Workers :
        \/ download_single_conflict(w)
        \/ download_single_get(w)
        \/ download_single_iter(w)
        \/ download_single_write(w)
        \/ download_single_move(w)

Segmented ==
    \E w \in Workers :
        \/ download_in_chunks_prepare(w)
        \/ download_in_chunks_join(w)
        \/ \E k \in Chunks :
            \/ download_chunk_get(w, k)
            \/ download_chunk_iter(w, k)
            \/ download_chunk_write(w, k)
            \/ download_chunk_sum(w, k)

\* the steps of worker thread w, and of the thread of chunk k of its run
WorkerStep(w) ==
    \/ worker_get(w)
    \/ worker_lookup(w)
    \/ worker_started(w)
    \/ worker_commit(w)
    \/ download_file_begin(w)
    \/ download_file_head(w)
    \/ download_single_conflict(w)
    \/ download_single_get(w)
    \/ download_single_iter(w)
    \/ download_single_write(w)
    \/ download_single_move(w)
    \/ download_in_chunks_prepare(w)
    \/ download_in_chunks_join(w)

ThreadStep(w, k) ==
    \/ download_chunk_get(w, k)
    \/ download_chunk_iter(w, k)
    \/ download_chunk_write(w, k)
    \/ download_chunk_sum(w, k)

\* every thread of the program
Next == Client \/ clear_completed \/ Scheduler \/ Single \/ Segmented

\* -------------------------------------------------------- specifications
\* settings with max_downloads md, retry_count rc and chunk_enabled ce; the
\* conflict policy is the default, chunk_min_size admits the served file
Settings(md, rc, ce) ==
    [max_downloads |-> md, retry_count |-> rc, chunk_enabled |-> ce,
     chunk_count |-> chunk_count, chunk_min_size |-> BodyLen,
     file_conflict |-> "Auto rename", privacy_mode |-> "Normal",
     tor_enabled |-> FALSE]

Budget(a, p, f) ==
    [add |-> a, pause |-> p, fail |-> f, noop |-> 0, clear |-> MaxClears,
     lengths |-> {BodyLen}, quick |-> FALSE, watch |-> FALSE]

\* One transfer, MaxWorkers workers, either strategy (the probe decides).
Init ==
    InitWith({Settings(MaxWorkers, rc, TRUE) : rc \in 0 .. MaxFailures},
             {Budget(1, MaxPauses, MaxFailures)}, {NoFiles})

Spec == Init /\ [][Next]_vars

\* More transfers than workers: one worker, two transfers, either strategy,
\* no retries; the client pauses or the server fails.
InitPool ==
    InitWith({Settings(1, 0, TRUE)},
             {Budget(2, MaxPauses, 0), Budget(2, 0, MaxFailures)}, {NoFiles})

SpecPool == InitPool /\ [][Next]_vars

\* The client calls, with and without effect: one worker and two
\* single-stream transfers the client pauses, resumes, cancels, deletes and
\* clears, with calls that find nothing to do; or one transfer of either
\* strategy whose requests fail.
InitCalls ==
    \/ InitWith({Settings(1, 0, FALSE)},
                {[Budget(2, MaxPauses, 0) EXCEPT !.noop = MaxNoops]}, {NoFiles})
    \/ InitWith({Settings(1, 0, TRUE)}, {Budget(1, 0, MaxFailures)}, {NoFiles})

SpecCalls == InitCalls /\ [][Next]_vars

\* As many workers as transfers: MaxWorkers workers and two single-stream
\* transfers; or one worker and one transfer of either strategy that the
\* client pauses and whose requests fail.
InitOrder ==
    \/ InitWith({Settings(MaxWorkers, 0, FALSE)}, {Budget(2, 0, 0)}, {NoFiles})
    \/ InitWith({Settings(1, 0, TRUE)}, {Budget(1, MaxPauses, MaxFailures)},
                {NoFiles})

SpecOrder == InitOrder /\ [][Next]_vars

\* The probe and the chunk ranges: one worker and one transfer that the
\* client pauses and whose requests fail; chunk_enabled on or off, every
\* chunk_count up to the largest, chunk_min_size 0 or BodyLen (the settings
\* file is read as it is), and a server that reports any Content-Length up
\* to BodyLen + 1 or none.
InitStrategy ==
    InitWith({[Settings(1, 0, ce) EXCEPT !.chunk_count = n, !.chunk_min_size = m] :
                 ce \in BOOLEAN, n \in 1 .. chunk_count, m \in {0, BodyLen}},
             {[Budget(1, MaxPauses, MaxFailures) EXCEPT
                  !.lengths = 0 .. BodyLen + 1]},
             {NoFiles})

SpecStrategy == InitStrategy /\ [][Next]_vars

\* files present in the target directory before the run: none, the name
\* from the URL, or that name and its first rename (each one chunk long)
ExistingFiles ==
    {NoFiles,
     Create(NoFiles, Path(<<>>, ""), 1),
     Create(Create(NoFiles, Path(<<>>, ""), 1), Path(<<1>>, ""), 1)}

\* the file_conflict policies of the settings dialog
Policies == {"Always ask", "Auto rename", "Overwrite", "Skip download"}

\* The conflict policies: one worker and one transfer of either strategy
\* that the client pauses and whose requests fail, under every policy, into
\* a directory that holds the target already or not.
InitConflict ==
    InitWith({[Settings(1, 0, TRUE) EXCEPT !.file_conflict = p] : p \in Policies},
             {Budget(1, MaxPauses, MaxFailures)}, ExistingFiles)

SpecConflict == InitConflict /\ [][Next]_vars

\* Retries: one worker and one transfer of either strategy that the client
\* pauses, with retry_count up to MaxFailures and one failing request more
\* than that, so that the retries can run out.
InitRetry ==
    InitWith({Settings(1, rc, TRUE) : rc \in 0 .. MaxFailures},
             {[Budget(1, MaxPauses, MaxFailures + 1) EXCEPT !.watch = TRUE]},
             {NoFiles})

SpecRetry == InitRetry /\ [][Next]_vars

\* Privacy modes: one worker and one transfer of either strategy that the
\* client pauses and whose requests fail, added with privacy mode Normal or
\* Tor while the privacy provider has Tor enabled or not.
InitPrivacy ==
    InitWith({[Settings(1, 0, TRUE) EXCEPT !.privacy_mode = m, !.tor_enabled = t] :
                 m \in {"Normal", "Tor"}, t \in BOOLEAN},
             {Budget(1, MaxPauses, MaxFailures)}, {NoFiles})

SpecPrivacy == InitPrivacy /\ [][Next]_vars

\* Pause and resume at once: one transfer of either strategy on one worker
\* or on MaxWorkers workers, a server that never fails, and a client that
\* pauses the transfer before any byte is written and resumes it at once; or
\* one worker and one transfer that the client pauses and resumes at any
\* time and whose requests fail.
InitQuick ==
    \/ InitWith({Settings(md, 0, TRUE) : md \in 1 .. MaxWorkers},
                {[Budget(1, MaxPauses, 0) EXCEPT !.quick = TRUE]}, {NoFiles})
    \/ InitWith({Settings(1, 0, TRUE)}, {Budget(1, MaxPauses, MaxFailures)},
                {NoFiles})

SpecQuick == InitQuick /\ [][Next]_vars

\* Fair scheduling: every worker thread and every chunk thread that can
\* take a step eventually takes one (a blocking request returns or raises).
\* One worker and two single-stream transfers; or one worker and one
\* transfer of either strategy that the client pauses and whose requests
\* fail.
InitFair ==
    \/ InitWith({Settings(1, 0, FALSE)}, {Budget(2, 0, 0)}, {NoFiles})
    \/ InitWith({Settings(1, 0, TRUE)}, {Budget(1, MaxPauses, MaxFailures)},
                {NoFiles})

SpecFair ==
    /\ InitFair
    /\ [][Next]_vars
    /\ \A w \in Workers : WF_vars(WorkerStep(w))
    /\ \A w \in Workers : \A k \in Chunks : WF_vars(ThreadStep(w, k))

\* ----------------------------------------------------------------- claims
\* worker w has dispatched a transfer and has not yet committed its result
Executing(w) == worker[w].pc \notin {"off", "get", "lookup", "commit"}

\* worker w is inside the download loop of its run (single-stream: the
\* iter_content loop; segmented: one of its chunk threads is in its loop)
InLoop(w) ==
    \/ worker[w].pc \in {"s_iter", "s_write"}
    \/ /\ worker[w].pc = "c_join"
       /\ \E k \in Chunks : thread[w][k].pc \in {"t_iter", "t_write", "t_sum"}

\* the status changes of the state machine (creation enters at Waiting)
Legal ==
    {<<"None", "Waiting">>, <<"Waiting", "Downloading">>,
     <<"Downloading", "Paused">>, <<"Paused", "Waiting">>,
     <<"Waiting", "Canceled">>, <<"Paused", "Canceled">>,
     <<"Downloading", "Canceled">>, <<"Downloading", "Completed">>,
     <<"Downloading", "Failed">>}

C2_TerminalIsFinal ==
    [][\A i \in Ids : status[i] \in Terminal => status'[i] = status[i]]_vars

\* C3: a transfer is never run by a worker while the worker of an earlier
\* dispatch is still inside its download loop for the same transfer.
C3_OneExecutor ==
    \A w1, w2 \in Workers :
        (w1 # w2 /\ worker[w1].id = worker[w2].id)
            => ~(InLoop(w1) /\ Executing(w2))

\* the transfers whose status is Downloading
Downloading == {i \in Ids : status[i] = "Downloading"}

\* C4: at every reachable state the number of transfers whose status is
\* Downloading is at most max_downloads.
C4_AtMostMaxDownloads == Cardinality(Downloading) <= settings.max_downloads

\* C4's case: every worker runs a transfer and another transfer waits
C4_Witness ==
    /\ Cardinality(Downloading) = settings.max_downloads
    /\ \E i \in Ids : status[i] = "Waiting" /\ i \in downloads
    /\ \A w \in Workers : w <= settings.max_downloads => Executing(w)

\* C5: at every reachable state every transfer with size >= 0 has
\* 0 <= downloaded <= size.
C5_DownloadedWithinSize ==
    \A i \in Ids : size[i] >= 0 => (0 <= downloaded[i] /\ downloaded[i] <= size[i])

\* C6: a transfer's downloaded counter never decreases from one state to
\* the next while the transfer is not terminal.
C6_DownloadedMonotonic ==
    [][\A i \in Ids : status[i] \notin Terminal => downloaded'[i] >= downloaded[i]]_vars

\* C7: for every transfer the Added event is emitted before its Started
\* event.
C7_AddedBeforeStarted == \A i \in Ids : ev[i].started > 0 => ev[i].added

\* C8: for each transfer id at most one terminal event (Completed, Failed
\* or Canceled) is ever emitted.
C8_OneTerminalEvent == \A i \in Ids : ev[i].terminal <= 1

\* C9: after a terminal event has been emitted for a transfer id, no
\* Progress event is emitted for that id.
C9_NoProgressAfterTerminal == \A i \in Ids : ~ev[i].late

\* the part files of transfer i: temp files named after the name the
\* transfer has, or had before its auto-renames
RECURSIVE IsPrefix(_, _)
IsPrefix(a, b) ==
    IF Len(a) > Len(b) THEN FALSE
    ELSE IF Len(a) = Len(b) THEN a = b
    ELSE IsPrefix(a, SubSeq(b, 1, Len(b) - 1))

PartFiles(i) ==
    {p \in DOMAIN files : p[2] # "" /\ IsPrefix(p[1], filename[i])}

\* C10: whenever a transfer is Failed or Canceled and no worker is executing
\* it any more, none of its part files exists.
C10_NoPartFilesLeft ==
    \A i \in Ids :
        (status[i] \in {"Failed", "Canceled"}
            /\ \A w \in Workers : worker[w].id # i)
        => PartFiles(i) = {}

\* the file at targetDir/filename of transfer i
TargetFile(i) == Path(get_target_path(i), "")

\* C11: whenever a transfer's status becomes Completed, a file exists at its
\* final name, it holds exactly size bytes when size >= 0, and none of the
\* transfer's part files remains.
C11_CompletedFile ==
    [][\A i \in Ids :
          (status'[i] = "Completed" /\ status[i] # "Completed")
          => /\ TargetFile(i)' \in DOMAIN files'
             /\ size'[i] >= 0 => files'[TargetFile(i)'] = size'[i]
             /\ PartFiles(i)' = {}]_vars

\* everything but the environment's budget
program ==
    <<settings, downloads, status, size, downloaded, error, filename, dchunks,
      download_queue, active_workers, worker, chunks, thread, files, pending,
      ev>>

\* the fields of transfer j and its events
Record(j) ==
    <<status[j], size[j], downloaded[j], error[j], filename[j], dchunks[j],
      ev[j]>>

\* C12: cancel(id) on a transfer in Waiting, Downloading or Paused sets its
\* status to Canceled, emits exactly one Canceled event and returns true; on
\* a terminal transfer or an unknown id it returns false, emits no event and
\* changes no state.
C12_Cancel ==
    [][\A i \in Ids :
          cancel_download(i)
          => IF i \in downloads /\ status[i] \in {"Waiting", "Downloading", "Paused"}
             THEN /\ cancel_download_returns(i)
                  /\ status'[i] = "Canceled"
                  /\ ev'[i].canceled = ev[i].canceled + 1
                  /\ ev'[i].terminal = ev[i].terminal + 1
             ELSE /\ ~cancel_download_returns(i)
                  /\ UNCHANGED program]_vars

\* C12's case: a cancel took effect on a registered transfer and a call
\* that found nothing to do has returned
C12_Witness ==
    /\ budget.noop < MaxNoops
    /\ \E i \in downloads : status[i] = "Canceled" /\ ev[i].canceled = 1
    /\ \E j \in downloads : status[j] = "Completed"

\* C14: pause(id) changes a status only from Downloading to Paused (emitting
\* Paused and returning true); in any other status or for an unknown id it
\* returns false and changes nothing; in every case the queue and all other
\* transfers are unchanged.
C14_Pause ==
    [][\A i \in Ids :
          (pause_download(i) \/ stop_download(i))
          => /\ IF i \in downloads /\ status[i] = "Downloading"
                THEN /\ pause_download_returns(i)
                     /\ status'[i] = "Paused"
                     /\ ev'[i].paused = ev[i].paused + 1
                ELSE /\ ~pause_download_returns(i)
                     /\ UNCHANGED program
             /\ UNCHANGED <<download_queue, downloads>>
             /\ \A j \in Ids \ {i} : Record(j)' = Record(j)]_vars

\* C14's case: a transfer was paused while another transfer is queued, and
\* a call that found nothing to do has returned
C14_Witness ==
    /\ budget.noop < MaxNoops
    /\ \E i, j \in downloads :
          /\ status[i] = "Paused" /\ ev[i].paused = 1
          /\ status[j] = "Waiting" /\ download_queue = <<j>>

\* C15: resume(id) on a Paused transfer sets it to Waiting, appends its id
\* exactly once at the tail of the queue, emits Resumed and returns true; in
\* any other status or for an unknown id it returns false, enqueues nothing
\* and changes no state.
C15_Resume ==
    [][\A i \in Ids :
          resume_download(i)
          => IF i \in downloads /\ status[i] = "Paused"
             THEN /\ resume_download_returns(i)
                  /\ status'[i] = "Waiting"
                  /\ download_queue' = Append(download_queue, i)
                  /\ ev'[i].resumed = ev[i].resumed + 1
             ELSE /\ ~resume_download_returns(i)
                  /\ UNCHANGED program]_vars

\* C15's case: a resumed transfer waits at the tail of the queue behind
\* another one, a canceled transfer is registered, and a call that found
\* nothing to do has returned
C15_Witness ==
    /\ budget.noop < MaxNoops
    /\ \E i, j \in downloads :
          /\ ev[i].resumed = 1 /\ status[i] = "Waiting"
          /\ download_queue = <<j, i>>

\* C18: clearCompleted removes exactly the transfers whose status is
\* Completed and leaves every other registry entry, every status and the
\* queue unchanged; a second call in a row changes nothing more.
C18_ClearCompleted ==
    [][clear_completed
          => /\ downloads' = {i \in downloads : status[i] # "Completed"}
             /\ UNCHANGED <<status, download_queue>>
             /\ \A j \in Ids : Record(j)' = Record(j)
             /\ completed_ids(downloads)' = {}]_vars

\* C18's case: a Completed transfer was cleared while a Canceled one stays
\* registered, and a call that found nothing to do has returned
C18_Witness ==
    /\ budget.clear < MaxClears
    /\ budget.noop < MaxNoops
    /\ \E i \in Ids : status[i] = "Completed" /\ i \notin downloads
    /\ \E j \in downloads : status[j] = "Canceled"

\* no worker holds transfer i
Left(i) == \A w \in Workers : worker[w].id # i

\* C13: after cancel(id) on a Downloading transfer, once the executing
\* worker has left the transfer, its status is Canceled.  (A transfer that
\* was never paused, was started and was canceled was Downloading when it
\* was canceled: canceled while Waiting, it is dropped before Started.)
C13_CanceledAfterWorkerLeft ==
    \A i \in Ids :
        (ev[i].canceled > 0 /\ ev[i].paused = 0 /\ ev[i].started > 0 /\ Left(i))
        => status[i] = "Canceled"

\* transfer i was removed from the registry by delete_download
\* (clear_completed removes Completed transfers only, and the status of a
\* removed transfer is never written Completed)
Deleted(i) == status[i] \notin {"None", "Completed"} /\ i \notin downloads

\* C16: after delete(id) has returned true the transfer is never in the
\* registry again, and no worker emits Started for it.
C16_DeletedStaysGone ==
    [][\A i \in Ids :
          Deleted(i) => (i \notin downloads' /\ ev'[i].started = ev[i].started)]_vars

\* C17: after delete(id) has removed a transfer from the registry, no worker
\* or chunk thread writes a field of the removed record (downloaded,
\* filename, error, status, chunks).
C17_DeletedNotWritten ==
    [][\A i \in Ids :
          Deleted(i)
          => /\ UNCHANGED <<status[i], downloaded[i], filename[i], error[i]>>
             /\ dchunks'[i].owner \in {dchunks[i].owner, 0}]_vars

\* how often transfer i has been marked Downloading by a worker: once for
\* every Started emitted and for every worker about to emit it
Marked(i) ==
    ev[i].started
    + Cardinality({w \in Workers : worker[w].pc = "started" /\ worker[w].id = i})

\* C19: transfers are dispatched in submission order: if a was enqueued
\* before b (ids are handed out in submission order; neither was enqueued
\* again by a resume) and b has been marked Downloading while a has not, a
\* is not marked Downloading afterwards.
C19_FifoDispatch ==
    [][\A a, b \in Ids :
          (a < b /\ ev[a].resumed = 0 /\ ev[b].resumed = 0
             /\ Marked(b) > 0 /\ Marked(a) = 0)
          => Marked(a)' = 0]_vars

\* id i is in the queue
InQueue(i) == \E n \in 1 .. Len(download_queue) : download_queue[n] = i

\* C20: under fair scheduling every id placed in the queue is eventually
\* dequeued by a worker and then either dispatched or dropped, and a worker
\* that has dequeued an id returns to dequeuing whatever the outcome of the
\* run.
C20_QueueDrains ==
    /\ \A i \in Ids : InQueue(i) ~> ~InQueue(i)
    /\ \A w \in Workers :
          At(w, "lookup") ~> (At(w, "started") \/ At(w, "get"))
    /\ \A w \in Workers :
          (worker[w].pc \notin {"get", "off"}) ~> At(w, "get")

\* C20's case: a transfer waits in the queue while the only worker runs
\* another one
C20_Witness ==
    \E i \in Ids, w \in Workers :
        /\ InQueue(i) /\ worker[w].id # i
        /\ Executing(w) /\ settings.max_downloads = 1

\* C21: the executor chooses the segmented strategy if and only if the
\* probe reported Accept-Ranges: bytes, chunk_enabled is true and
\* size >= chunk_min_size; in every other case, size = -1 included, it
\* chooses single-stream.
C21_Strategy ==
    [][\A w \in Workers :
          (At(w, "head") /\ worker'[w].pc \in {"c_prepare", "s_conflict"})
          => /\ worker'[w].pc = "c_prepare"
                <=> /\ worker'[w].range
                    /\ settings.chunk_enabled
                    /\ size'[worker[w].id] >= settings.chunk_min_size
             /\ size'[worker[w].id] = -1 => worker'[w].pc = "s_conflict"]_vars

\* C21's case: the server supports ranges and chunk_enabled is on, and the
\* probe chose single-stream because the size is below chunk_min_size
C21_Witness ==
    \E w \in Workers :
        /\ At(w, "s_conflict") /\ worker[w].range /\ settings.chunk_enabled
        /\ size[worker[w].id] >= 0
        /\ size[worker[w].id] < settings.chunk_min_size

\* the chunk_count ranges of list c are contiguous in index order from 0 to
\* sz - 1, all but the last sz \div chunk_count wide, and every byte of
\* 0 .. sz - 1 lies in exactly one of them
Partition(c, sz) ==
    LET n == settings.chunk_count IN
    /\ c[0].start = 0
    /\ c[n - 1].end = sz - 1
    /\ \A k \in 0 .. n - 2 :
          /\ c[k + 1].start = c[k].end + 1
          /\ c[k].end - c[k].start + 1 = sz \div n
    /\ \A b \in 0 .. sz - 1 :
          Cardinality({k \in Active : c[k].start <= b /\ b <= c[k].end}) = 1

\* C22: for every size and chunk_count with which the segmented strategy
\* runs, the chunk ranges are pairwise disjoint, contiguous in index order
\* and cover exactly the bytes 0..size-1; every chunk but the last is
\* floor(size/chunk_count) bytes wide and the last absorbs the remainder.
C22_ChunkRanges ==
    [][\A w \in Workers :
          (At(w, "c_prepare") /\ worker'[w].pc = "c_join")
          => Partition(chunks'[w], size[worker[w].id])]_vars

\* C22's case: a run with two chunks of a size chunk_count does not divide
C22_Witness ==
    \E w \in Workers :
        /\ At(w, "c_join") /\ settings.chunk_count = 2
        /\ size[worker[w].id] = BodyLen + 1
        /\ chunks[w][1].end - chunks[w][1].start
              > chunks[w][0].end - chunks[w][0].start

\* C23: whenever the segmented strategy is reached, for any configured
\* chunk_min_size and chunk_count, size >= chunk_count holds and every
\* chunk has start <= end.
C23_NoEmptyRange ==
    [][\A w \in Workers :
          (At(w, "c_prepare") /\ worker'[w].pc = "c_join")
          => /\ size[worker[w].id] >= settings.chunk_count
             /\ \A k \in Active : chunks'[w][k].start <= chunks'[w][k].end]_vars

\* worker w runs the conflict check of either strategy in this step
ConflictCheck(w) ==
    /\ At(w, "s_conflict") \/ At(w, "c_prepare")
    /\ worker'[w].pc # worker[w].pc

\* C24: under Auto rename, when targetDir/filename exists, the transfer
\* adopts the name with the smallest counter k >= 1 that does not exist;
\* when the target does not exist the filename is left unchanged.
C24_AutoRename ==
    [][\A w \in Workers :
          (ConflictCheck(w) /\ settings.file_conflict = "Auto rename")
          => LET i == worker[w].id
                 name == filename[i]
             IN IF Exists(Path(name, ""))
                THEN \E k \in 1 .. Cardinality(DOMAIN files) + 1 :
                        /\ filename'[i] = Append(name, k)
                        /\ ~Exists(Path(Append(name, k), ""))
                        /\ \A j \in 1 .. k - 1 : Exists(Path(Append(name, j), ""))
                ELSE filename'[i] = name]_vars

\* C24's case: the target and its first rename existed, and the transfer
\* took the second
C24_Witness ==
    /\ settings.file_conflict = "Auto rename"
    /\ \E i \in Ids : filename[i] = <<2>>
    /\ Exists(Path(<<>>, "")) /\ Exists(Path(<<1>>, ""))

\* C25: under Auto rename, transfers with the same target directory and
\* filename that are submitted as a batch and run on concurrent workers
\* complete with pairwise-distinct final file names.
C25_DistinctNames ==
    \A a, b \in Ids :
        (/\ a # b
         /\ settings.file_conflict = "Auto rename"
         /\ status[a] = "Completed" /\ status[b] = "Completed"
         /\ ev[a].paused = 0 /\ ev[a].canceled = 0
         /\ ev[b].paused = 0 /\ ev[b].canceled = 0)
        => filename[a] # filename[b]

\* C26: under Skip download, if targetDir/filename exists when the conflict
\* check runs, the executor returns success at once (no GET is sent, no
\* part file is created, no file is modified), and the final commit writes
\* a registered transfer Completed.
C26_SkipDownload ==
    [][\A w \in Workers :
          /\ (/\ ConflictCheck(w)
               /\ settings.file_conflict = "Skip download"
               /\ Exists(Path(filename[worker[w].id], "")))
             => /\ worker'[w].pc = "commit" /\ worker'[w].success
                /\ UNCHANGED <<files, ev, filename, downloaded>>
          /\ (At(w, "commit") /\ worker[w].success /\ worker'[w].pc = "get"
                 /\ worker[w].id \in downloads)
             => status'[worker[w].id] = "Completed"]_vars

\* C26's case: a transfer ended Completed with nothing downloaded and the
\* file that was there is as it was
C26_Witness ==
    /\ settings.file_conflict = "Skip download"
    /\ \E i \in downloads : status[i] = "Completed" /\ downloaded[i] = 0
    /\ files = Create(NoFiles, Path(<<>>, ""), 1)

\* C27: under Always ask, if targetDir/filename exists when the conflict
\* check runs, the executor fails with an error set and no file is
\* modified.
C27_AlwaysAsk ==
    [][\A w \in Workers :
          (/\ ConflictCheck(w)
           /\ settings.file_conflict = "Always ask"
           /\ Exists(Path(filename[worker[w].id], "")))
          => /\ worker'[w].pc = "commit" /\ ~worker'[w].success
             /\ error'[worker[w].id] # ""
             /\ UNCHANGED files]_vars

\* transfer i was never paused and never canceled
Undisturbed(i) == ev[i].paused = 0 /\ ev[i].canceled = 0

\* C28: a single-stream run that fails while the transfer is Downloading
\* has made exactly retry_count retries, sets the error and leaves no .part
\* file; the commit of a failed run of a transfer never paused or canceled
\* writes Failed, with the error set and a Failed event; the commit of a
\* successful one writes Completed with the error unset.
C28_RetryThenFail ==
    [][\A w \in Workers :
          LET i == worker[w].id IN
          /\ (/\ worker[w].pc \in {"s_get", "s_iter", "s_move"}
               /\ worker'[w].pc = "commit" /\ ~worker'[w].success
               /\ status[i] = "Downloading")
             => /\ worker[w].retries = settings.retry_count
                /\ error'[i] # ""
                /\ Path(worker[w].temp, ".part") \notin DOMAIN files'
          /\ (/\ At(w, "commit") /\ worker'[w].pc = "get"
               /\ i \in downloads /\ Undisturbed(i))
             => IF worker[w].success
                THEN status'[i] = "Completed" /\ error'[i] = ""
                ELSE /\ status'[i] = "Failed" /\ error'[i] # ""
                     /\ ev'[i].terminal = ev[i].terminal + 1]_vars

\* C28's case: with retry_count 1, the first GET and its one retry failed
\* and the single-stream transfer is Failed
C28_Witness ==
    \E i \in downloads :
        /\ status[i] = "Failed" /\ Undisturbed(i) /\ error[i] # ""
        /\ settings.retry_count = 1 /\ budget.fail = MaxFailures + 1 - 2
        /\ dchunks[i] = [owner |-> 0, list |-> <<>>]

\* C29: for a transfer whose privacy mode is Tor while the privacy provider
\* reports Tor disabled, no HEAD or GET request is sent over a direct
\* (unproxied) connection.
C29_NoDirectRequest ==
    \A i \in Ids :
        (settings.privacy_mode = "Tor" /\ ~settings.tor_enabled) => ~ev[i].direct

\* C30: at every state in which no worker is executing the transfer, the
\* transfer's error field is set if and only if its status is Failed.
C30_ErrorIffFailed ==
    \A i \in downloads :
        Left(i) => (error[i] # "" <=> status[i] = "Failed")

\* a chunk of worker w's run has exhausted its retries
SegmentFailed(w) == \E k \in Active : chunks[w][k].status = "failed"

\* C31: when one segment of a segmented transfer has exhausted its retries,
\* the sibling segment threads of that run write no further bytes.
C31_SiblingsAbandoned ==
    [][\A w \in Workers : \A k \in Chunks :
          SegmentFailed(w) => ~download_chunk_write(w, k)]_vars

\* every call has returned, the queue is empty and every worker waits in
\* download_queue.get()
Quiescent ==
    /\ download_queue = <<>>
    /\ pending = {}
    /\ \A w \in Workers : worker[w].pc \in {"get", "off"}

\* the target directory after a run of the one transfer that is served
\* BodyLen chunks and is never paused: the file under the name from the URL
FinalFiles == Create(NoFiles, Path(<<>>, ""), BodyLen)

\* C32: a transfer that was paused before any byte was written and resumed
\* at once, on a server that never fails, ends Completed (never Failed) with
\* the same final file as a run with no pause and resume, for any number of
\* workers.
C32_PauseResumeEquivalent ==
    \A i \in downloads :
        (budget.quick /\ ev[i].resumed > 0 /\ ev[i].canceled = 0 /\ Quiescent)
        => /\ status[i] = "Completed"
           /\ filename[i] = <<>>
           /\ files = FinalFiles

\* C33: when the executor has returned, the worker's commit writes a final
\* status only over Downloading: a transfer that is Paused, Waiting or
\* Canceled by then keeps that status and gets no Completed or Failed event.
C33_CommitOnlyOverDownloading ==
    [][\A w \in Workers :
          LET i == worker[w].id IN
          (/\ At(w, "commit") /\ worker'[w].pc = "get"
           /\ status[i] \in {"Paused", "Waiting", "Canceled"})
          => /\ status'[i] = status[i]
             /\ ev'[i].terminal = ev[i].terminal]_vars

\* C34: a worker marks a dequeued id Downloading (and then emits Started)
\* only if the id is in the registry and its status is not Paused,
\* Completed, Failed or Canceled; otherwise it drops the id and changes no
\* transfer state.  A transfer canceled before it was ever marked is never
\* marked.
C34_DispatchGuard ==
    [][/\ \A w \in Workers :
             LET i == worker[w].id IN
             worker_lookup(w)
             => IF /\ i \in downloads
                   /\ status[i] \notin {"Paused", "Completed", "Failed", "Canceled"}
                THEN /\ status'[i] = "Downloading"
                     /\ worker'[w].pc = "started"
                ELSE /\ worker'[w].pc = "get"
                     /\ UNCHANGED <<objVars, regVars, files, ev>>
       /\ \A j \in Ids :
             Marked(j)' > Marked(j)
             => /\ j \in downloads
                /\ status[j] \notin {"Paused", "Completed", "Failed", "Canceled"}
       /\ \A j \in Ids :
             (status[j] = "Canceled" /\ Marked(j) = 0) => Marked(j)' = 0]_vars

\* C34's case: a transfer canceled while Waiting was dequeued and dropped
C34_Witness ==
    \E i \in downloads :
        /\ status[i] = "Canceled" /\ ev[i].canceled = 1
        /\ Marked(i) = 0 /\ ~InQueue(i) /\ Left(i)

\* C35: if a transfer is paused or canceled while its executor is between
\* retry attempts, the executor issues no further GET for that transfer.
C35_NoGetAfterStop ==
    [][\A w \in Workers :
          LET i == worker[w].id IN
          (i \in Ids /\ ev[i].delayed /\ status[i] \in {"Paused", "Canceled"})
          => /\ ~download_single_get(w)
             /\ \A k \in Chunks : ~download_chunk_get(w, k)]_vars

\* transfer i has a segment list, and no thread of its current run is
\* between the update of its segment's count and the update of the total
Steady(i) ==
    /\ DOMAIN DownloadChunks(i) # {}
    /\ \A w \in Workers : \A k \in Chunks :
          worker[w].id = i => thread[w][k].pc # "t_sum"

\* C36: for a segmented transfer, whenever no segment thread is in the
\* middle of a progress update, downloaded equals the sum of the downloaded
\* counts of its current segments.
C36_DownloadedIsSum ==
    \A i \in Ids :
        Steady(i)
        => downloaded[i] = SumDownloaded(DownloadChunks(i), DOMAIN DownloadChunks(i))

\* the steps that model a block of code run under self.downloads_lock: the
\* client calls on a registered transfer (lines 140, 151, 163, 174, 193),
\* the worker's lookup and commit (lines 227, 249) and the chunk thread's
\* update of the total (line 522)
UnderLock ==
    \/ \E i \in Ids :
          \/ pause_download(i) \/ stop_download(i) \/ resume_download(i)
          \/ cancel_download(i) \/ delete_download(i)
    \/ clear_completed
    \/ \E w \in Workers :
          \/ worker_lookup(w) \/ worker_commit(w)
          \/ \E k \in Chunks : download_chunk_sum(w, k)

\* C37: every write to the downloaded count or the status of a transfer
\* that has been created, and every write to the downloaded count of a
\* segment of a running list, is made by a step that holds the registry
\* lock.
C37_WritesUnderLock ==
    [][/\ \A i \in Ids :
             (status[i] # "None"
                /\ (downloaded'[i] # downloaded[i] \/ status'[i] # status[i]))
             => UnderLock
       /\ \A w \in Workers : \A k \in Chunks :
             (/\ chunks[w][k].status # "none" /\ chunks'[w][k].status # "none"
              /\ chunks'[w][k].downloaded # chunks[w][k].downloaded)
             => UnderLock]_vars

\* the threads that hold a part file open for writing, each with the path
\* of its file: a worker inside `with open(temp_path, 'wb')` (lines
\* 369-385), a chunk thread inside `with open(chunk['temp_file'], 'wb')`
\* (lines 511-531)
Writers ==
    {<<w, -1, Path(worker[w].temp, ".part")>> :
        w \in {v \in Workers : worker[v].pc \in {"s_iter", "s_write"}}}
    \cup
    UNION {{<<w, k, TempFile(w, k)>> :
               k \in {c \in Chunks :
                         thread[w][c].pc \in {"t_iter", "t_write", "t_sum"}}} :
           w \in Workers}

\* C38: at any time each part file path is open for writing by at most one
\* thread.
C38_OneWriterPerPartFile ==
    \A x, y \in Writers : x[3] = y[3] => x = y

\* the total length of the temp files ks of worker w's run
RECURSIVE PartsLength(_, _, _)
PartsLength(f, w, ks) ==
    IF ks = {} THEN 0
    ELSE LET k == CHOOSE x \in ks : TRUE
         IN f[TempFile(w, k)] + PartsLength(f, w, ks \ {k})

Occurrences(i) ==
    Cardinality({n \in 1 .. Len(download_queue) : download_queue[n] = i})

\* C40: at every reachable state each transfer id occurs at most once in
\* the queue, and a queued id is never in status Downloading or Paused.
C40_QueuedOnceAndWaiting ==
    \A i \in Ids :
        /\ Occurrences(i) <= 1
        /\ InQueue(i) => status[i] \notin {"Downloading", "Paused"}

\* C40's case: a resumed transfer is in the queue while the worker of its
\* earlier dispatch is still executing it, and another worker is free
C40_Witness ==
    \E i \in downloads, w \in Workers :
        /\ InQueue(i) /\ ev[i].resumed = 1 /\ status[i] = "Waiting"
        /\ worker[w].id = i /\ Executing(w)
        /\ settings.max_downloads = MaxWorkers

====
